---- MODULE Spec2Model ----
(***************************************************************************)
(* RepairConnect: the provider-assignment engine.                          *)
(*                                                                         *)
(* The model covers the tables service_requests, request_status_history,   *)
(* notifications and provider_profiles, the two database triggers on       *)
(* service_requests, the two edge functions (assign-provider and           *)
(* assign-pending-requests) and the client operations that write these     *)
(* tables (CreateRequest, AvailabilityToggle, ServiceRequestsList and      *)
(* ProviderJobActions).  Every await of a handler that reads or writes     *)
(* mutable shared rows is a step of its own.                               *)
(*                                                                         *)
(* Coordinates: all points lie on one meridian and a latitude is given in  *)
(* units of the arc of one kilometre, so that the haversine distance of    *)
(* two points is the absolute difference of their latitudes.               *)
(***************************************************************************)
EXTENDS Integers, Sequences, FiniteSets, Bags, TLC

\* SQL NULL in an id column, and in a numeric or timestamp column.
NULL == "null"
NULLNUM == -1
\* parseFloat(null) in JavaScript.
NaN == -2

----------------------------------------------------------------------------
\* Bounds of the model.
NumAssign == 2      \* invocations of assign-provider
NumBatch == 1       \* invocations of assign-pending-requests
MaxMarks == 2       \* clicks on "Mark Completed"
MaxToggles == 1     \* uses of the availability switch

Req == {"r1", "r2"}
Inv == 1..NumAssign
Bat == 1..NumBatch

----------------------------------------------------------------------------
\* Reference data: users, roles, categories, provider profiles.
Prov == {"p1", "p2"}
Cat == {"plumbing", "electrical", "painting"}
Resident == "res"
Admins == {"adm1", "adm2"}

\* provider_profiles.user_id (UNIQUE)
ProvUser == [p \in Prov |-> IF p = "p1" THEN "u1" ELSE "u2"]
ProvUsers == {ProvUser[p] : p \in Prov}

\* A user who has not set a location on the Profile page.
Unlocated == "u3"

\* profiles.location_lat of the provider users
profiles == [u \in ProvUsers \cup {Unlocated} |->
               [id |-> u, name |-> u,
                location_lat |-> IF u = "u1" THEN 1
                                 ELSE IF u = "u2" THEN 3 ELSE NULLNUM]]

\* provider_categories rows (provider_profile_id, category_id)
provider_categories == {<<"p1", "plumbing">>, <<"p2", "plumbing">>,
                        <<"p2", "electrical">>}

\* Variant: only the first admin row is used.
user_roles_first == {"adm1"}

\* user_roles rows with role = 'admin'
user_roles_admin == Admins

\* What a resident may enter in the CreateRequest form.
RequestInputs == {[category_id |-> "plumbing", location_lat |-> 0],
                  [category_id |-> "plumbing", location_lat |-> 9],
                  [category_id |-> "painting", location_lat |-> 0]}

Status == {"pending", "assigned", "in_progress", "completed", "cancelled"}

----------------------------------------------------------------------------
VARIABLES
    service_requests,        \* Req -> row, or NoRow before the insert
    request_status_history,  \* Req -> sequence of history rows, oldest first
    notifications,           \* bag of notification rows
    provider_profiles,       \* Prov -> [user_id, is_available, service_area_radius_km]
    assign,                  \* Inv -> state of an assign-provider invocation
    batch,                   \* Bat -> state of an assign-pending-requests invocation
    list,                    \* <<provider, request>>: the buttons shown in the provider's lists
    mark,                    \* state of ProviderJobActions.handleMarkCompleted
    toggles                  \* changes of provider settings: their number, and auth.uid() of the last

vars == <<service_requests, request_status_history, notifications,
          provider_profiles, assign, batch, list, mark, toggles>>

NoRow == [id |-> NULL]

Exists(r) == service_requests[r].id # NULL

----------------------------------------------------------------------------
\* Haversine distance, on one meridian.
calculateDistance(lat1, lat2) ==
    IF lat1 = NaN \/ lat2 = NaN THEN NaN
    ELSE IF lat1 >= lat2 THEN lat1 - lat2 ELSE lat2 - lat1

\* Variant: null converted as Number(null) = 0.
parseFloatZero(x) == IF x = NULLNUM THEN 0 ELSE x

parseFloat(x) == IF x = NULLNUM THEN NaN ELSE x

\* Variant: the comparison written as < (the radius edge excluded).
LeqStrict(a, b) == a # NaN /\ b # NaN /\ a < b

\* a <= b in JavaScript: false when either side is NaN.
Leq(a, b) == a # NaN /\ b # NaN /\ a <= b

\* Variant: a sort that puts an element before those equal to it.
RECURSIVE InsertSortedUnstable(_, _)
InsertSortedUnstable(s, x) ==
    IF s = <<>> THEN <<x>>
    ELSE IF x.distance <= Head(s).distance THEN <<x>> \o s
    ELSE <<Head(s)>> \o InsertSortedUnstable(Tail(s), x)

\* Array.prototype.sort with (a, b) => a.distance - b.distance: stable.
RECURSIVE InsertSorted(_, _)
InsertSorted(s, x) ==
    IF s = <<>> THEN <<x>>
    ELSE IF x.distance < Head(s).distance THEN <<x>> \o s
    ELSE <<Head(s)>> \o InsertSorted(Tail(s), x)

RECURSIVE SortByDistance(_)
SortByDistance(s) ==
    IF s = <<>> THEN <<>>
    ELSE InsertSorted(SortByDistance(SubSeq(s, 1, Len(s) - 1)), s[Len(s)])

\* The fetch order of a query without ORDER BY: any enumeration of the rows.
Orderings(S) ==
    {s \in [1..Cardinality(S) -> S] : \A a, b \in DOMAIN s : a # b => s[a] # s[b]}

----------------------------------------------------------------------------
\* The database: triggers on service_requests and the statements that write it.

\* BEFORE UPDATE trigger update_request_timestamps_trigger.
update_request_timestamps(NEWROW, t) ==
    IF NEWROW.status = "assigned" /\ NEWROW.assigned_at = NULLNUM
    THEN [NEWROW EXCEPT !.assigned_at = t]
    ELSE IF NEWROW.status = "completed" /\ NEWROW.completed_at = NULLNUM
    THEN [NEWROW EXCEPT !.completed_at = t]
    ELSE NEWROW

\* Variant: the trigger without its condition, logging every insert and update.
log_every_write(TG_OP, OLDROW, NEWROW, uid) ==
    << [status |-> NEWROW.status,
        changed_by |-> IF uid # NULL THEN uid ELSE NEWROW.resident_id,
        notes |-> NULL] >>

\* AFTER INSERT OR UPDATE trigger log_service_request_status_change: the
\* history rows it inserts.  uid is auth.uid(), NULL under the service role.
log_request_status_change(TG_OP, OLDROW, NEWROW, uid) ==
    IF TG_OP = "INSERT" \/ OLDROW.status # NEWROW.status
    THEN << [status |-> NEWROW.status,
             changed_by |-> IF uid # NULL THEN uid ELSE NEWROW.resident_id,
             notes |-> NULL] >>
    ELSE << >>

\* The row after SET: the columns named in set take the new values.
Merge(OLDROW, set) ==
    [f \in DOMAIN OLDROW |-> IF f \in DOMAIN set THEN set[f] ELSE OLDROW[f]]

\* Time is compared only within one row, so the clock is kept per row: a
\* statement that writes row r runs later than the last write of r.
Clock(r) == service_requests[r].updated_at + 1

\* BEFORE UPDATE trigger update_service_requests_updated_at.
update_updated_at_column(NEWROW, t) == [NEWROW EXCEPT !.updated_at = t]

\* ServiceRequestsList subscribes to every change of service_requests and
\* calls loadRequests: a session of the row's provider then shows the row,
\* and ProviderJobActions renders its button unless currentStatus ===
\* "completed".  A session may keep showing what it loaded.
loadRequests(NEWROW) ==
    IF NEWROW.provider_id # NULL /\ NEWROW.status # "completed"
    THEN {<<NEWROW.provider_id, NEWROW.id>>}
    ELSE {}

\* Variant: the history of a request replaced by the rows just logged.
ReplaceHistory(history, rows) == rows

\* INSERT INTO request_status_history: rows are added after those present.
AppendHistory(history, rows) == history \o rows

\* UPDATE service_requests SET set WHERE id = r AND where, run as uid.
\* hit is the WHERE clause and the row-level-security policy evaluated on
\* the current row; with no row hit the statement changes nothing.
UpdateServiceRequest(r, hit, set, uid) ==
    LET OLDROW == service_requests[r]
        NEWROW == update_request_timestamps(
                    update_updated_at_column(Merge(OLDROW, set), Clock(r)),
                    Clock(r))
    IN  IF Exists(r) /\ hit
        THEN /\ service_requests' = [service_requests EXCEPT ![r] = NEWROW]
             /\ request_status_history' =
                  [request_status_history EXCEPT
                     ![r] = AppendHistory(@, log_request_status_change(
                                                "UPDATE", OLDROW, NEWROW, uid))]
             /\ list' = list \cup loadRequests(NEWROW)
        ELSE UNCHANGED <<service_requests, request_status_history, list>>

\* INSERT INTO notifications
InsertNotifications(rows) == notifications' = notifications (+) rows

Notification(user, title, r) ==
    [user_id |-> user, title |-> title, related_request_id |-> r]

----------------------------------------------------------------------------
\* Variant: a request inserted as already assigned.
NewRequestAssigned(r, in) ==
    [id |-> r, resident_id |-> Resident, provider_id |-> "p1",
     category_id |-> in.category_id, status |-> "assigned",
     location_lat |-> in.location_lat,
     created_at |-> 1, updated_at |-> 1,
     assigned_at |-> NULLNUM, completed_at |-> NULLNUM]

\* CreateRequest.handleSubmit: the resident inserts a request.
NewRequest(r, in) ==
    [id |-> r, resident_id |-> Resident, provider_id |-> NULL,
     category_id |-> in.category_id, status |-> "pending",
     location_lat |-> in.location_lat,
     created_at |-> 1, updated_at |-> 1,
     assigned_at |-> NULLNUM, completed_at |-> NULLNUM]

CreateRequest(r, in) ==
    /\ ~Exists(r)
    /\ IF r = "r1" THEN TRUE ELSE Exists("r1")    \* ids are taken in this order
    /\ service_requests' = [service_requests EXCEPT ![r] = NewRequest(r, in)]
    /\ request_status_history' =
         [request_status_history EXCEPT
            ![r] = log_request_status_change("INSERT", NoRow, NewRequest(r, in),
                                             Resident)]
    /\ UNCHANGED <<notifications, provider_profiles, assign, batch, list,
                   mark, toggles>>

----------------------------------------------------------------------------
\* assign-provider (single-request assignment).

NoResponse == [http |-> 0]

\* Variant: every outcome answered as a success.
ResponseAccepted(http, success, message) ==
    [http |-> 200, success |-> "true", message |-> message]

Response(http, success, message) ==
    [http |-> http, success |-> success, message |-> message]

NullCandidate == [providerId |-> NULL]

\* map / filter / sort of the fetched provider profiles (fetch order kept).
providersWithDistance(request, providerProfiles, profs) ==
    LET candidate(provider) ==
            IF \/ provider.user_id \notin DOMAIN profs
               \/ profs[provider.user_id].location_lat = NULLNUM
            THEN NullCandidate
            ELSE [providerId |-> provider.id,
                  providerName |-> profs[provider.user_id].name,
                  distance |-> calculateDistance(
                                 request.location_lat,
                                 parseFloat(profs[provider.user_id].location_lat)),
                  serviceRadius |-> parseFloat(provider.service_area_radius_km)]
        mapped == [k \in 1..Len(providerProfiles) |-> candidate(providerProfiles[k])]
        keep(p) == p # NullCandidate /\ Leq(p.distance, p.serviceRadius)
    IN  SortByDistance(SelectSeq(mapped, keep))

\* const assignedProvider = providersWithDistance[0]
assignedProvider(shortlist) == shortlist[1]

\* Variant: the membership query without its category filter.
CategoryProvidersAny(c) == {pc[1] : pc \in provider_categories}

\* provider_categories rows of a category -> provider profile ids
CategoryProviders(c) == {pc[1] : pc \in {x \in provider_categories : x[2] = c}}

\* Variant: the profile query without .eq('is_available', true).
AllProfiles(ids) == ids

\* provider_profiles rows .in('id', ids).eq('is_available', true)
AvailableProfiles(ids) == {p \in ids : provider_profiles[p].is_available}

ProfileRow(p) ==
    [id |-> p, user_id |-> provider_profiles[p].user_id,
     is_available |-> provider_profiles[p].is_available,
     service_area_radius_km |-> provider_profiles[p].service_area_radius_km]

\* .select('id, category_id, location_lat, location_lng, resident_id')
RequestColumns(row) ==
    [id |-> row.id, category_id |-> row.category_id,
     location_lat |-> row.location_lat, resident_id |-> row.resident_id]

\* The reads of the handler up to the ranking, and the two no-match returns.
\* status_at_read is a history variable: the status the request had when the
\* handler read it (the handler itself does not select that column).
AssignResolve(i, rid) ==
    /\ assign[i].pc = "idle"
    /\ IF i = 1 THEN TRUE ELSE assign[i - 1].pc # "idle"   \* numbered in the order they start
    /\ LET request == RequestColumns(service_requests[rid])
           seen == service_requests[rid].status
           ids == CategoryProviders(request.category_id)
       IN  IF ~Exists(rid)
           THEN /\ assign' = [assign EXCEPT ![i].pc = "done", ![i].requestId = rid,
                                ![i].response = Response(400, "false", "Service request not found")]
                /\ UNCHANGED notifications
           ELSE IF ids = {}
           THEN /\ assign' = [assign EXCEPT ![i].pc = "done", ![i].requestId = rid,
                                ![i].request = request, ![i].status_at_read = seen,
                                ![i].response = Response(200, "false", "No providers available for this category")]
                /\ UNCHANGED notifications
           ELSE \E order \in Orderings(AvailableProfiles(ids)) :
                  LET providerProfiles == [k \in DOMAIN order |-> ProfileRow(order[k])]
                      shortlist == providersWithDistance(request, providerProfiles, profiles)
                  IN  IF shortlist = << >>
                      THEN /\ InsertNotifications(
                                SetToBag({Notification(a, "Assignment Failed", rid) :
                                            a \in user_roles_admin}))
                           /\ assign' = [assign EXCEPT ![i].pc = "done", ![i].requestId = rid,
                                           ![i].request = request, ![i].status_at_read = seen,
                                           ![i].response = Response(200, "false", "No available providers found in service area")]
                      ELSE /\ assign' = [assign EXCEPT ![i].pc = "update", ![i].requestId = rid,
                                           ![i].request = request, ![i].status_at_read = seen,
                                           ![i].providerProfiles = order,
                                           ![i].providersWithDistance = shortlist]
                           /\ UNCHANGED notifications
    /\ UNCHANGED <<service_requests, request_status_history, provider_profiles,
                   batch, list, mark, toggles>>

\* The row filter of the update: .eq('id', requestId) and nothing else.
AssignWhere(row) == TRUE

\* Variant: the update without provider_id.
AssignSetWithoutProvider(providerId, t) ==
    [status |-> "assigned", assigned_at |-> t]

AssignSet(providerId, t) ==
    [provider_id |-> providerId, status |-> "assigned", assigned_at |-> t]

\* Variant: the update without its id filter, reaching the first row.
AssignTargetFirst(i) == "r1"

\* The row the update is applied to: .eq('id', requestId).
AssignTarget(i) == assign[i].requestId

\* Variant: the provider is not notified.
AssignNotificationsResidentOnly(updateError, resident_id, provider_user_id, rid) ==
    IF updateError THEN EmptyBag
    ELSE SetToBag({Notification(resident_id, "Service Request Assigned", rid)})

\* Variant: the notifications inserted whether or not the update failed.
AssignNotificationsDespiteError(updateError, resident_id, provider_user_id, rid) ==
    SetToBag({Notification(resident_id, "Service Request Assigned", rid)})
    (+) SetToBag({Notification(provider_user_id, "New Job Assignment", rid)})

\* The notification inserts of the handler: none when updateError made it
\* throw; otherwise one to the resident and, when the provider profile has
\* a user_id, one to that user.
AssignNotifications(updateError, resident_id, provider_user_id, rid) ==
    IF updateError THEN EmptyBag
    ELSE SetToBag({Notification(resident_id, "Service Request Assigned", rid)})
         (+) (IF provider_user_id # NULL
              THEN SetToBag({Notification(provider_user_id, "New Job Assignment", rid)})
              ELSE EmptyBag)

\* supabase.from('service_requests').update({...}).eq('id', requestId).
\* The array of fetched profiles is not used after the update and is dropped
\* with it.  updateError is what the statement returns: with an error the row is not
\* written and the handler throws into its catch; with none, the two
\* notification inserts and the success response follow.
AssignUpdate(i, updateError) ==
    /\ assign[i].pc = "update"
    /\ LET chosen == assignedProvider(assign[i].providersWithDistance)
           rid == AssignTarget(i)
       IN  /\ IF updateError
              THEN UNCHANGED <<service_requests, request_status_history, list>>
              ELSE UpdateServiceRequest(rid, AssignWhere(service_requests[rid]),
                                        AssignSet(chosen.providerId, Clock(rid)), NULL)
           /\ InsertNotifications(
                AssignNotifications(updateError, assign[i].request.resident_id,
                                    provider_profiles[chosen.providerId].user_id,
                                    assign[i].requestId))
    /\ assign' = [assign EXCEPT ![i].pc = "done",
                    ![i].providerProfiles = << >>,
                    ![i].response =
                       IF updateError
                       THEN Response(400, "false", "Failed to assign provider")
                       ELSE Response(200, "true", "Provider assigned successfully")]
    /\ UNCHANGED <<provider_profiles, batch, mark, toggles>>

----------------------------------------------------------------------------
\* assign-pending-requests (batch assignment for one provider user).

DefaultRadius == 10

\* parseFloat(providerProfile.service_area_radius_km?.toString() || '10')
serviceRadius(service_area_radius_km) ==
    IF service_area_radius_km = NULLNUM THEN DefaultRadius
    ELSE parseFloat(service_area_radius_km)

\* Variant: the loop without its distance check.
BatchInRangeAny(providerLat, radius, request) == TRUE

\* if (distance <= serviceRadius)
BatchInRange(providerLat, radius, request) ==
    Leq(calculateDistance(providerLat, parseFloat(request.location_lat)), radius)

\* The loop runs without an await over the requests it does not assign:
\* the first index from k on whose request passes the distance check.
RECURSIVE NextIndex(_, _, _, _)
NextIndex(reqs, k, providerLat, radius) ==
    IF k > Len(reqs) THEN k
    ELSE IF BatchInRange(providerLat, radius, reqs[k]) THEN k
    ELSE NextIndex(reqs, k + 1, providerLat, radius)

\* .eq('status', 'pending').in('category_id', categoryIds).is('provider_id', null)
PendingFor(categoryIds) ==
    {r \in Req : /\ Exists(r)
                 /\ service_requests[r].status = "pending"
                 /\ service_requests[r].category_id \in categoryIds
                 /\ service_requests[r].provider_id = NULL}

\* Variant: after an early return the invocation starts over.
BatchRetry(b, u, http, success, message) ==
    batch' = [batch EXCEPT ![b].pc = "idle", ![b].userId = u,
                ![b].response = Response(http, success, message)]

\* An early return of the handler.
BatchDone(b, u, http, success, message) ==
    batch' = [batch EXCEPT ![b].pc = "done", ![b].userId = u,
                ![b].response = Response(http, success, message)]

\* The reads of the handler, its early returns, and the entry into the loop.
BatchStart(b, u) ==
    /\ batch[b].pc = "idle"
    /\ IF b = 1 THEN TRUE ELSE batch[b - 1].pc # "idle"
    /\ LET owned == {p \in Prov : provider_profiles[p].user_id = u}
       IN  IF owned = {}
           THEN BatchDone(b, u, 404, "absent", "Provider profile not found")
           ELSE LET p == CHOOSE x \in owned : TRUE
                    providerProfile == ProfileRow(p)
                    categoryIds == {pc[2] : pc \in {x \in provider_categories : x[1] = p}}
                    providerLat == parseFloat(profiles[u].location_lat)
                    radius == serviceRadius(providerProfile.service_area_radius_km)
                IN  IF ~providerProfile.is_available
                    THEN BatchDone(b, u, 200, "absent", "Provider is not available")
                    ELSE IF categoryIds = {}
                    THEN BatchDone(b, u, 400, "absent", "Provider has no service categories")
                    ELSE IF PendingFor(categoryIds) = {}
                    THEN BatchDone(b, u, 200, "absent", "No pending requests found")
                    ELSE \E order \in Orderings(PendingFor(categoryIds)) :
                           LET pendingRequests == [k \in DOMAIN order |->
                                                      RequestColumns(service_requests[order[k]])]
                               first == NextIndex(pendingRequests, 1, providerLat, radius)
                           IN  batch' = [batch EXCEPT
                                 ![b].userId = u,
                                 ![b].providerProfile = providerProfile,
                                 ![b].providerLat = providerLat,
                                 ![b].serviceRadius = radius,
                                 ![b].pendingRequests = pendingRequests,
                                 ![b].k = first,
                                 ![b].pc = IF first > Len(pendingRequests)
                                           THEN "done" ELSE "update",
                                 ![b].response = IF first > Len(pendingRequests)
                                                 THEN Response(200, "true", "Assigned")
                                                 ELSE NoResponse]
    /\ UNCHANGED <<service_requests, request_status_history, notifications,
                   provider_profiles, assign, list, mark, toggles>>

\* The row filter of the update: .eq('id', request.id).eq('status', 'pending')
BatchWhere(row) == row.status = "pending"

\* Variant: the notifications inserted whether or not the update failed.
BatchNotificationsDespiteError(assignError, resident_id, userId, rid) ==
    SetToBag({Notification(resident_id, "Service Provider Assigned", rid)})
    (+) SetToBag({Notification(userId, "New Service Assignment", rid)})

\* The notification inserts of one turn of the loop: none when assignError
\* made it continue, otherwise one to the resident and one to the provider.
BatchNotifications(assignError, resident_id, userId, rid) ==
    IF assignError THEN EmptyBag
    ELSE SetToBag({Notification(resident_id, "Service Provider Assigned", rid)})
         (+) SetToBag({Notification(userId, "New Service Assignment", rid)})

\* One turn of the loop: the update of the request; with assignError the
\* loop continues; with none, assignedCount++ and the two notification
\* inserts; then on to the next request in range or to the response.
BatchUpdate(b, assignError) ==
    /\ batch[b].pc = "update"
    /\ LET request == batch[b].pendingRequests[batch[b].k]
           next == NextIndex(batch[b].pendingRequests, batch[b].k + 1,
                             batch[b].providerLat, batch[b].serviceRadius)
       IN  /\ IF assignError
              THEN UNCHANGED <<service_requests, request_status_history, list>>
              ELSE UpdateServiceRequest(request.id,
                                        BatchWhere(service_requests[request.id]),
                                        AssignSet(batch[b].providerProfile.id,
                                                  Clock(request.id)),
                                        NULL)
           /\ InsertNotifications(
                BatchNotifications(assignError, request.resident_id,
                                   batch[b].userId, request.id))
           /\ batch' = [batch EXCEPT
                 ![b].assignedCount = IF assignError THEN @ ELSE @ + 1,
                 ![b].k = next,
                 ![b].pc = IF next > Len(batch[b].pendingRequests)
                           THEN "done" ELSE "update",
                 ![b].response = IF next > Len(batch[b].pendingRequests)
                                 THEN Response(200, "true", "Assigned")
                                 ELSE NoResponse]
    /\ UNCHANGED <<provider_profiles, assign, mark, toggles>>

----------------------------------------------------------------------------
\* The provider's client: ProviderJobActions and AvailabilityToggle.

\* Row-level security on service_requests for a provider user: the policies
\* "Providers can view assigned requests" and "Providers can update their
\* assigned requests".
ProviderPolicy(row, p) == row.provider_id = p

\* A click on a button that some session of provider p shows for request r:
\* handleMarkCompleted up to the fetch of resident_id; a fetch error ends it.
MarkFetch(p, r) ==
    /\ mark.pc = "idle"
    /\ mark.count < MaxMarks
    /\ <<p, r>> \in list
    /\ IF ProviderPolicy(service_requests[r], p)
       THEN mark' = [mark EXCEPT !.pc = "update", !.requestId = r,
                                 !.viewer = p,
                                 !.resident_id = service_requests[r].resident_id,
                                 !.count = @ + 1]
       ELSE mark' = [mark EXCEPT !.count = @ + 1]
    /\ UNCHANGED <<service_requests, request_status_history, notifications,
                   provider_profiles, assign, batch, list, toggles>>

MarkSet(t) == [status |-> "completed", completed_at |-> t]

\* supabase.from("service_requests").update({...}).eq("id", requestId), then
\* the "Service Completed" notification to the resident.
MarkUpdate ==
    /\ mark.pc = "update"
    /\ UpdateServiceRequest(mark.requestId,
                            ProviderPolicy(service_requests[mark.requestId], mark.viewer),
                            MarkSet(Clock(mark.requestId)),
                            provider_profiles[mark.viewer].user_id)
    /\ InsertNotifications(
         SetToBag({Notification(mark.resident_id, "Service Completed", mark.requestId)}))
    /\ mark' = [mark EXCEPT !.pc = "idle"]
    /\ UNCHANGED <<provider_profiles, assign, batch, toggles>>

\* Variant: the UPDATE policy without its condition.
AnyonePolicy(row, uid) == TRUE

\* Row-level security on provider_profiles: "Providers can update their own
\* profile", USING (auth.uid() = user_id).
OwnerPolicy(row, uid) == row.user_id = uid

\* AvailabilityToggle.handleToggle in a session of user uid, on profile p:
\* an update that the policy keeps from the row changes nothing.
handleToggle(uid, p) ==
    /\ toggles.count < MaxToggles
    /\ IF OwnerPolicy(provider_profiles[p], uid)
       THEN /\ toggles' = [count |-> toggles.count + 1, uid |-> uid]
            /\ provider_profiles' = [provider_profiles EXCEPT ![p].is_available = ~@]
       ELSE UNCHANGED <<toggles, provider_profiles>>
    /\ UNCHANGED <<service_requests, request_status_history, notifications,
                   assign, batch, list, mark>>

\* Profile.handleSubmit in a session of user uid whose form holds profile p:
\* the update of provider_profiles.  An empty radius field is parseFloat("")
\* = NaN, sent as null.
Profile(uid, p, serviceRadiusKm, isAvailable) ==
    /\ IF OwnerPolicy(provider_profiles[p], uid)
       THEN /\ toggles' = [toggles EXCEPT !.uid = uid]
            /\ provider_profiles' =
                 [provider_profiles EXCEPT
                    ![p].service_area_radius_km = serviceRadiusKm,
                    ![p].is_available = isAvailable]
       ELSE UNCHANGED <<toggles, provider_profiles>>
    /\ UNCHANGED <<service_requests, request_status_history, notifications,
                   assign, batch, list, mark>>

----------------------------------------------------------------------------
Init ==
    /\ service_requests = [r \in Req |-> NoRow]
    /\ request_status_history = [r \in Req |-> << >>]
    /\ notifications = EmptyBag
    /\ provider_profiles =
         [p \in Prov |-> [user_id |-> ProvUser[p], is_available |-> TRUE,
                          service_area_radius_km |-> IF p = "p1" THEN 1 ELSE 3]]
    /\ assign = [i \in Inv |-> [pc |-> "idle", requestId |-> NULL,
                                request |-> NoRow, status_at_read |-> NULL,
                                providerProfiles |-> << >>,
                                providersWithDistance |-> << >>,
                                response |-> NoResponse]]
    /\ batch = [b \in Bat |-> [pc |-> "idle", userId |-> NULL,
                               providerProfile |-> NoRow,
                               providerLat |-> NaN, serviceRadius |-> NaN,
                               pendingRequests |-> << >>, k |-> 0,
                               assignedCount |-> 0,
                               response |-> NoResponse]]
    /\ list = {}
    /\ mark = [pc |-> "idle", requestId |-> NULL, viewer |-> NULL,
               resident_id |-> NULL, count |-> 0]
    /\ toggles = [count |-> 0, uid |-> NULL]

Next ==
    \/ \E r \in Req, in \in RequestInputs : CreateRequest(r, in)
    \/ \E i \in Inv, r \in Req : AssignResolve(i, r)
    \/ \E i \in Inv, updateError \in BOOLEAN : AssignUpdate(i, updateError)
    \/ \E b \in Bat, u \in ProvUsers \cup {Resident} : BatchStart(b, u)
    \/ \E b \in Bat, assignError \in BOOLEAN : BatchUpdate(b, assignError)
    \/ \E p \in Prov, r \in Req : MarkFetch(p, r)
    \/ MarkUpdate
    \/ \E uid \in ProvUsers, p \in Prov : handleToggle(uid, p)

Spec == Init /\ [][Next]_vars

----------------------------------------------------------------------------
\* The ranking on its own: one inserted request and any provider table, then
\* assign-provider invocations on it.

MaxLat == 4         \* request latitudes 0..MaxLat
MaxRadius == 3      \* service radii 0..MaxRadius, or NULL

RankInputs == [category_id : {"plumbing", "electrical"}, location_lat : 0..MaxLat]

InitRank ==
    /\ \E in \in RankInputs :
         /\ service_requests = [r \in Req |-> IF r = "r1" THEN NewRequest(r, in) ELSE NoRow]
         /\ request_status_history =
              [r \in Req |-> IF r = "r1"
                             THEN log_request_status_change("INSERT", NoRow,
                                                            NewRequest(r, in), Resident)
                             ELSE << >>]
    /\ notifications = EmptyBag
    /\ provider_profiles \in
         [Prov -> [user_id : ProvUsers \cup {Unlocated}, is_available : BOOLEAN,
                   service_area_radius_km : {NULLNUM} \cup (0..MaxRadius)]]
    /\ \A p \in Prov : provider_profiles[p].user_id \in {ProvUser[p], Unlocated}
    /\ \E p \in Prov : provider_profiles[p].user_id # Unlocated    \* user_id is UNIQUE
    /\ assign = [i \in Inv |-> [pc |-> "idle", requestId |-> NULL,
                                request |-> NoRow, status_at_read |-> NULL,
                                providerProfiles |-> << >>,
                                providersWithDistance |-> << >>,
                                response |-> NoResponse]]
    /\ batch = [b \in Bat |-> [pc |-> "idle", userId |-> NULL,
                               providerProfile |-> NoRow,
                               providerLat |-> NaN, serviceRadius |-> NaN,
                               pendingRequests |-> << >>, k |-> 0,
                               assignedCount |-> 0,
                               response |-> NoResponse]]
    /\ list = {}
    /\ mark = [pc |-> "idle", requestId |-> NULL, viewer |-> NULL,
               resident_id |-> NULL, count |-> 0]
    /\ toggles = [count |-> 0, uid |-> NULL]

NextRank ==
    \/ \E i \in Inv, r \in Req : AssignResolve(i, r)
    \/ \E i \in Inv, updateError \in BOOLEAN : AssignUpdate(i, updateError)

SpecRank == InitRank /\ [][NextRank]_vars

----------------------------------------------------------------------------
\* Properties.

Row(r) == service_requests[r]
Statuses(r) == [k \in DOMAIN request_status_history[r] |->
                  request_status_history[r][k].status]

\* Invocation i of assign-provider executes its update in this step.
AssignWrites(i) ==
    /\ assign[i].pc = "update" /\ assign'[i].pc = "done"
    /\ assign'[i].response.http = 200
\* Invocation b of assign-pending-requests executes an update in this step.
BatchWrites(b) == batch[b].pc = "update" /\ batch'[b].assignedCount # batch[b].assignedCount
BatchTarget(b) == batch[b].pendingRequests[batch[b].k].id

SameAssignment(r) ==
    /\ Row(r).provider_id' = Row(r).provider_id
    /\ Row(r).status' = Row(r).status
    /\ Row(r).assigned_at' = Row(r).assigned_at

\* C1: an invocation that read the request while it was pending and whose
\* update runs after another invocation has moved the request out of pending
\* has lost the race: its update leaves provider_id, status and assigned_at
\* as the winner set them.
C1_RaceLoserChangesNothing ==
    [][ /\ \A i \in Inv :
             (/\ AssignWrites(i)
              /\ assign[i].status_at_read = "pending"
              /\ Row(assign[i].requestId).status # "pending")
             => SameAssignment(assign[i].requestId)
        /\ \A b \in Bat :
             (BatchWrites(b) /\ Row(BatchTarget(b)).status # "pending")
             => SameAssignment(BatchTarget(b)) ]_vars

\* C2: an assign-provider invocation started on a request that is already
\* assigned never changes provider_id or assigned_at and does not answer
\* with a successful assignment.
C2_AssignedIsIdempotent ==
    [][ \A i \in Inv :
          (AssignWrites(i) /\ assign[i].status_at_read = "assigned")
          => /\ Row(assign[i].requestId).provider_id' = Row(assign[i].requestId).provider_id
             /\ Row(assign[i].requestId).assigned_at' = Row(assign[i].requestId).assigned_at
             /\ assign'[i].response.success # "true" ]_vars

\* C3: every write that sets a request's status to assigned is applied to a
\* row that is pending with provider_id null at the moment of the write.
C3_AssignOnlyPending ==
    [][ \A r \in Req :
          (Exists(r) /\ Row(r)' # Row(r) /\ Row(r).status' = "assigned")
          => (Row(r).status = "pending" /\ Row(r).provider_id = NULL) ]_vars

\* C4: a pending request has no provider; an assigned, in_progress or
\* completed request has one.
C4_ProviderIffAssigned ==
    \A r \in Req :
      Exists(r) =>
        /\ Row(r).status = "pending" => Row(r).provider_id = NULL
        /\ Row(r).status \in {"assigned", "in_progress", "completed"}
             => Row(r).provider_id # NULL

C4_Witness ==
    \E r \in Req :
      /\ Exists(r) /\ Row(r).status = "completed" /\ Row(r).provider_id = "p2"
      /\ Row(r).updated_at >= 4

\* C5: completed and cancelled are terminal: no step changes such a status.
C5_TerminalStatus ==
    [][ \A r \in Req :
          (Exists(r) /\ Row(r).status \in {"completed", "cancelled"})
          => Row(r).status' = Row(r).status ]_vars

\* C6: every change of status follows an edge of the state machine.
Edges == {<<"pending", "assigned">>, <<"assigned", "in_progress">>,
          <<"in_progress", "completed">>, <<"pending", "cancelled">>,
          <<"assigned", "cancelled">>}

C6_OnlyEdges ==
    [][ \A r \in Req :
          (Exists(r) /\ Row(r).status' # Row(r).status)
          => <<Row(r).status, Row(r).status'>> \in Edges ]_vars

\* C7: the insert of a request creates exactly one history row, with status
\* pending; every later change of its status adds exactly one row carrying
\* the status entered; a write that keeps the status adds none.
C7_OneHistoryRowPerTransition ==
    [][ \A r \in Req :
          IF ~Exists(r)
          THEN Exists(r)' => Statuses(r)' = <<"pending">>
          ELSE IF Row(r).status' # Row(r).status
          THEN Statuses(r)' = Append(Statuses(r), Row(r).status')
          ELSE Statuses(r)' = Statuses(r) ]_vars

C7_Witness ==
    \E r \in Req :
      /\ Exists(r)
      /\ Statuses(r) = <<"pending", "assigned">>
      /\ Row(r).updated_at = 3

\* C8: assigned_at, once set, is never changed.
C8_AssignedAtSetOnce ==
    [][ \A r \in Req :
          (Exists(r) /\ Row(r).assigned_at # NULLNUM)
          => Row(r).assigned_at' = Row(r).assigned_at ]_vars

\* C9: completed_at, once set, is never changed.
C9_CompletedAtSetOnce ==
    [][ \A r \in Req :
          (Exists(r) /\ Row(r).completed_at # NULLNUM)
          => Row(r).completed_at' = Row(r).completed_at ]_vars

\* C10: the shortlist holds exactly the providers of the category that are
\* available, have a location and are at a distance <= their service radius
\* (the edge included), in non-decreasing order of distance, and the
\* provider committed is its first element: no eligible provider is nearer.
Distance(request, p) ==
    LET lat == profiles[provider_profiles[p].user_id].location_lat
    IN  IF lat >= request.location_lat
        THEN lat - request.location_lat ELSE request.location_lat - lat

Eligible(request) ==
    {p \in Prov :
       /\ <<p, request.category_id>> \in provider_categories
       /\ provider_profiles[p].is_available
       /\ profiles[provider_profiles[p].user_id].location_lat # NULLNUM
       /\ provider_profiles[p].service_area_radius_km # NULLNUM
       /\ Distance(request, p) <= provider_profiles[p].service_area_radius_km}

RankedExactly(shortlist, request) ==
    /\ {shortlist[k].providerId : k \in DOMAIN shortlist} = Eligible(request)
    /\ Len(shortlist) = Cardinality(Eligible(request))
    /\ \A k \in DOMAIN shortlist :
         /\ shortlist[k].distance = Distance(request, shortlist[k].providerId)
         /\ shortlist[k].distance <= shortlist[k].serviceRadius
    /\ \A k \in 1..(Len(shortlist) - 1) :
         shortlist[k].distance <= shortlist[k + 1].distance

C10_RankedShortlist ==
    [][ \A i \in Inv :
          /\ (assign[i].pc = "idle" /\ assign'[i].pc = "update")
             => RankedExactly(assign'[i].providersWithDistance, assign'[i].request)
          /\ (/\ assign[i].pc = "idle" /\ assign'[i].pc = "done"
              /\ assign'[i].response.message = "No available providers found in service area")
             => Eligible(assign'[i].request) = {}
          /\ AssignWrites(i)
             => /\ Row(assign[i].requestId).provider_id' =
                     assign[i].providersWithDistance[1].providerId
                /\ \A p \in Eligible(assign[i].request) :
                     Distance(assign[i].request, p) >=
                       Distance(assign[i].request, Row(assign[i].requestId).provider_id') ]_vars

C10_Witness ==
    \E i \in Inv :
      /\ assign[i].pc = "done" /\ assign[i].response.success = "true"
      /\ Len(assign[i].providersWithDistance) = 2
      /\ \E k \in 1..2 : assign[i].providersWithDistance[k].distance =
                           assign[i].providersWithDistance[k].serviceRadius
      /\ Row(assign[i].requestId).provider_id = assign[i].providersWithDistance[1].providerId

----------------------------------------------------------------------------
\* Invocation i of assign-provider runs its reads in this step.
AssignReads(i) == assign[i].pc = "idle" /\ assign'[i].pc # "idle"
\* Invocation b of assign-pending-requests runs one turn of its loop.
BatchTurns(b) == batch[b].pc = "update" /\ batch'[b] # batch[b]
\* The notifications inserted in this step.
Emitted == notifications' (-) notifications
\* The membership rows of a category.
Members(c) == {x \in provider_categories : x[2] = c}

\* C11: an invocation whose update changes no row inserts no notification
\* in that step and does not report the request as assigned (no success
\* response from assign-provider, no increment of assignedCount).
C11_ZeroRowsIsSilent ==
    [][ /\ \A i \in Inv :
             (/\ assign[i].pc = "update" /\ assign'[i].pc = "done"
              /\ Row(assign[i].requestId)' = Row(assign[i].requestId))
             => /\ notifications' = notifications
                /\ assign'[i].response.success # "true"
        /\ \A b \in Bat :
             (BatchTurns(b) /\ service_requests'[BatchTarget(b)] = Row(BatchTarget(b)))
             => /\ notifications' = notifications
                /\ batch'[b].assignedCount = batch[b].assignedCount ]_vars

\* C12: the step in which assign-provider commits inserts exactly two
\* notifications, one for the request's resident and one for the user of
\* the provider profile now on the request, both with related_request_id
\* the request.
C12_TwoNotificationsOnCommit ==
    [][ \A i \in Inv :
          AssignWrites(i) =>
            LET rid == assign[i].requestId
                owner == provider_profiles[Row(rid).provider_id'].user_id
                to(u) == {n \in BagToSet(Emitted) : n.user_id = u}
            IN  /\ BagCardinality(Emitted) = 2
                /\ Cardinality(to(Row(rid).resident_id)) = 1
                /\ Cardinality(to(owner)) = 1
                /\ \A n \in BagToSet(Emitted) : n.related_request_id = rid ]_vars

C12_Witness ==
    \E i \in Inv :
      /\ assign[i].pc = "done" /\ assign[i].response.success = "true"
      /\ BagIn(Notification("u2", "New Job Assignment", assign[i].requestId),
               notifications)
      /\ BagIn(Notification(Resident, "Service Request Assigned", assign[i].requestId),
               notifications)

\* C13: when the category of the request has no membership row, the
\* invocation ends at its reads with the answer "No providers available for
\* this category" (success false), inserts no notification and writes no
\* request: a pending request stays pending with provider_id null.
C13_NoProvidersForCategory ==
    [][ \A i \in Inv :
          LET rid == assign'[i].requestId
          IN  (AssignReads(i) /\ Exists(rid) /\ Members(Row(rid).category_id) = {})
              => /\ assign'[i].pc = "done"
                 /\ assign'[i].response =
                      Response(200, "false", "No providers available for this category")
                 /\ notifications' = notifications
                 /\ UNCHANGED <<service_requests, request_status_history>>
                 /\ Row(rid).status = "pending" /\ Row(rid).provider_id = NULL ]_vars

C13_Witness ==
    \E i \in Inv :
      /\ assign[i].pc = "done"
      /\ assign[i].response.message = "No providers available for this category"
      /\ Row(assign[i].requestId).category_id = "painting"
      /\ Row(assign[i].requestId).status = "pending"

\* C14: when the category has membership rows but no provider is eligible
\* (available, located, within its radius), the invocation inserts exactly
\* one "Assignment Failed" notification per admin user, each with
\* related_request_id the request, answers success false, and leaves the
\* request row as it was.
C14_NoneInRangeAlertsAdmins ==
    [][ \A i \in Inv :
          LET rid == assign'[i].requestId
          IN  (/\ AssignReads(i) /\ Exists(rid)
               /\ Members(Row(rid).category_id) # {}
               /\ Eligible(Row(rid)) = {})
              => /\ assign'[i].pc = "done"
                 /\ assign'[i].response.http = 200
                 /\ assign'[i].response.success = "false"
                 /\ Emitted = SetToBag({Notification(a, "Assignment Failed", rid) :
                                          a \in Admins})
                 /\ UNCHANGED <<service_requests, request_status_history>> ]_vars

C14_Witness ==
    \E i \in Inv :
      /\ assign[i].pc = "done"
      /\ assign[i].response.message = "No available providers found in service area"
      /\ Row(assign[i].requestId).status = "pending"
      /\ Row(assign[i].requestId).provider_id = NULL
      /\ \A a \in Admins :
           BagIn(Notification(a, "Assignment Failed", assign[i].requestId), notifications)

\* C15: an invocation whose requestId names no request ends in the failure
\* response (HTTP 400, success false) and writes nothing: requests, history
\* and notifications are unchanged.
C15_NotFoundWritesNothing ==
    [][ \A i \in Inv :
          (AssignReads(i) /\ ~Exists(assign'[i].requestId))
          => /\ assign'[i].pc = "done"
             /\ assign'[i].response.http = 400
             /\ assign'[i].response.success = "false"
             /\ UNCHANGED <<service_requests, request_status_history,
                            notifications>> ]_vars

C15_Witness ==
    \E i \in Inv :
      /\ assign[i].pc = "done"
      /\ assign[i].response.message = "Service request not found"
      /\ ~Exists(assign[i].requestId)

AssignmentTitles == {"Service Request Assigned", "New Job Assignment",
                     "Service Provider Assigned", "New Service Assignment"}

\* C16: an assignment notification for a request is inserted only in a step
\* in which the inserting invocation's update of that request has returned
\* without error, and by then the request carries a committed assignment
\* (assigned_at is set); a step whose update returns an error inserts no
\* notification and leaves the row as it was.
C16_UpdateBeforeNotifications ==
    [][ /\ \A n \in BagToSet(Emitted) :
             n.title \in AssignmentTitles
             => /\ \/ \E i \in Inv : /\ AssignWrites(i)
                                      /\ assign[i].requestId = n.related_request_id
                   \/ \E b \in Bat : /\ BatchWrites(b)
                                      /\ BatchTarget(b) = n.related_request_id
                /\ service_requests'[n.related_request_id].assigned_at # NULLNUM
        /\ \A i \in Inv :
             (/\ assign[i].pc = "update" /\ assign'[i].pc = "done"
              /\ assign'[i].response.http # 200)
             => /\ notifications' = notifications
                /\ service_requests' = service_requests
        /\ \A b \in Bat :
             (BatchTurns(b) /\ batch'[b].assignedCount = batch[b].assignedCount)
             => /\ notifications' = notifications
                /\ service_requests' = service_requests ]_vars

C16_Witness ==
    \E i \in Inv :
      /\ assign[i].pc = "done"
      /\ assign[i].response.message = "Failed to assign provider"
      /\ Row(assign[i].requestId).status = "pending"
      /\ \A n \in BagToSet(notifications) :
           n.related_request_id # assign[i].requestId

\* C17: the history row added when assign-provider moves a request to
\* assigned has a note (the distance to the provider).
C17_HistoryNoteHasDistance ==
    [][ \A i \in Inv :
          LET rid == assign[i].requestId
              history == request_status_history'[rid]
          IN  (AssignWrites(i) /\ Row(rid).status # "assigned")
              => history[Len(history)].notes # NULL ]_vars

\* C18: every provider on the shortlist of an invocation has, in the rows
\* the invocation read, a membership row for the request's category,
\* is_available true and a location; the provider it assigns is on its
\* shortlist; and its reads of an existing request never end in an error.
C18_OnlyQualifiedProviders ==
    [][ \A i \in Inv :
          /\ (AssignReads(i) /\ assign'[i].pc = "update")
             => \A k \in DOMAIN assign'[i].providersWithDistance :
                  LET p == assign'[i].providersWithDistance[k].providerId
                  IN  /\ <<p, assign'[i].request.category_id>> \in provider_categories
                      /\ provider_profiles[p].is_available
                      /\ profiles[provider_profiles[p].user_id].location_lat # NULLNUM
          /\ AssignWrites(i)
             => \E k \in DOMAIN assign[i].providersWithDistance :
                  service_requests'[assign[i].requestId].provider_id =
                    assign[i].providersWithDistance[k].providerId
          /\ (AssignReads(i) /\ Exists(assign'[i].requestId))
             => assign'[i].response.http # 400 ]_vars

C18_Witness ==
    \E i \in Inv :
      /\ assign[i].pc = "done" /\ assign[i].response.success = "true"
      /\ Row(assign[i].requestId).category_id = "plumbing"
      /\ Len(assign[i].providersWithDistance) = 1
      /\ \E p, q \in Prov :
           /\ Row(assign[i].requestId).provider_id = p
           /\ q # p
           /\ provider_profiles[q].is_available
           /\ provider_profiles[q].user_id = Unlocated

\* C19: the history of a request only grows: every row present before a
\* step is present after it, at the same place and unchanged.
C19_HistoryAppendOnly ==
    [][ \A r \in Req :
          /\ Len(request_status_history'[r]) >= Len(request_status_history[r])
          /\ SubSeq(request_status_history'[r], 1, Len(request_status_history[r]))
               = request_status_history[r] ]_vars

C19_Witness ==
    \E r \in Req :
      /\ Len(request_status_history[r]) = 4
      /\ Statuses(r) = <<"pending", "assigned", "completed", "assigned">>

----------------------------------------------------------------------------
\* Two inserted requests and assign-provider invocations on them, in any
\* interleaving.

InitPair ==
    /\ \E in1, in2 \in RankInputs :
         LET in == [r \in Req |-> IF r = "r1" THEN in1 ELSE in2]
         IN  /\ service_requests = [r \in Req |-> NewRequest(r, in[r])]
             /\ request_status_history =
                  [r \in Req |-> log_request_status_change(
                                    "INSERT", NoRow, NewRequest(r, in[r]), Resident)]
    /\ notifications = EmptyBag
    /\ provider_profiles =
         [p \in Prov |-> [user_id |-> ProvUser[p], is_available |-> TRUE,
                          service_area_radius_km |-> IF p = "p1" THEN 1 ELSE 3]]
    /\ assign = [i \in Inv |-> [pc |-> "idle", requestId |-> NULL,
                                request |-> NoRow, status_at_read |-> NULL,
                                providerProfiles |-> << >>,
                                providersWithDistance |-> << >>,
                                response |-> NoResponse]]
    /\ batch = [b \in Bat |-> [pc |-> "idle", userId |-> NULL,
                               providerProfile |-> NoRow,
                               providerLat |-> NaN, serviceRadius |-> NaN,
                               pendingRequests |-> << >>, k |-> 0,
                               assignedCount |-> 0,
                               response |-> NoResponse]]
    /\ list = {}
    /\ mark = [pc |-> "idle", requestId |-> NULL, viewer |-> NULL,
               resident_id |-> NULL, count |-> 0]
    /\ toggles = [count |-> 0, uid |-> NULL]

NextPair ==
    \/ \E i \in Inv, r \in Req : AssignResolve(i, r)
    \/ \E i \in Inv, updateError \in BOOLEAN : AssignUpdate(i, updateError)

SpecPair == InitPair /\ [][NextPair]_vars

\* The eligible providers at the least distance from the request.
Nearest(request) ==
    {p \in Eligible(request) :
       \A q \in Eligible(request) : Distance(request, p) <= Distance(request, q)}

\* The row of request r after one invocation, run alone on the inserted
\* request, has assigned provider p.
Solo(r, p) ==
    [NewRequest(r, [category_id |-> Row(r).category_id,
                    location_lat |-> Row(r).location_lat])
       EXCEPT !.provider_id = p, !.status = "assigned",
              !.assigned_at = 2, !.updated_at = 2]

\* C20: a step of an invocation for request R leaves the row and the
\* history of every other request as they were; and when the other
\* invocations are for other requests, the row it writes is the row it
\* would write running alone on R, whatever those invocations have done.
C20_DistinctRequestsIndependent ==
    [][ \A i \in Inv :
          LET rid == assign'[i].requestId
          IN  /\ assign'[i] # assign[i]
                 => \A r \in Req \ {rid} :
                      /\ service_requests'[r] = service_requests[r]
                      /\ request_status_history'[r] = request_status_history[r]
              /\ (AssignWrites(i) /\ \A j \in Inv \ {i} : assign[j].requestId # rid)
                 => \E p \in Nearest(Row(rid)) :
                      service_requests'[rid] = Solo(rid, p) ]_vars

C20_Witness ==
    \E i, j \in Inv :
      /\ assign[i].requestId = "r1" /\ assign[j].requestId = "r2"
      /\ assign[i].pc = "done" /\ assign[i].response.success = "true"
      /\ assign[j].pc = "done" /\ assign[j].response.success = "true"
      /\ Row("r1").provider_id = "p2" /\ Row("r2").provider_id = "p1"
      /\ Row("r1").assigned_at = 2 /\ Row("r2").assigned_at = 2

----------------------------------------------------------------------------
NoMatchMessages == {"No providers available for this category",
                    "No available providers found in service area"}
HardFailureMessages == {"Service request not found", "Failed to assign provider",
                        "Provider profile not found"}

\* C21: a finished invocation that found no match answers HTTP 200 with
\* success false; one that failed hard (request or provider profile not
\* found, write error) answers HTTP 400 or 500 with success false.
C21_OutcomeCodes ==
    /\ \A i \in Inv :
         assign[i].pc = "done" =>
           /\ assign[i].response.message \in NoMatchMessages
                => (assign[i].response.http = 200 /\ assign[i].response.success = "false")
           /\ assign[i].response.message \in HardFailureMessages
                => (assign[i].response.http \in {400, 500}
                    /\ assign[i].response.success = "false")
    /\ \A b \in Bat :
         (batch[b].pc = "done" /\ batch[b].response.message \in HardFailureMessages)
         => (batch[b].response.http \in {400, 500}
             /\ batch[b].response.success = "false")

\* C27: assignedCount grows by one in exactly the turns of the loop in which
\* the invocation itself moves the request from pending to assigned with
\* its own provider.
C27_CountIsOwnAssignments ==
    [][ \A b \in Bat :
          BatchTurns(b) =>
            LET t == BatchTarget(b)
                own == /\ Row(t).status = "pending"
                       /\ service_requests'[t].status = "assigned"
                       /\ service_requests'[t].provider_id = batch[b].providerProfile.id
            IN  batch'[b].assignedCount =
                  batch[b].assignedCount + (IF own THEN 1 ELSE 0) ]_vars

\* The eligibility test of the batch pipeline, for provider p and a request.
BatchEligible(request, p) ==
    /\ provider_profiles[p].is_available
    /\ BatchInRange(parseFloat(profiles[provider_profiles[p].user_id].location_lat),
                    serviceRadius(provider_profiles[p].service_area_radius_km),
                    request)

\* C28: for a provider of the request's category, being on the shortlist of
\* assign-provider is the same as passing the test of the batch pipeline on
\* the same rows, a null service_area_radius_km included.
C28_PipelinesAgree ==
    [][ \A i \in Inv :
          (AssignReads(i) /\ Exists(assign'[i].requestId)
           /\ Members(assign'[i].request.category_id) # {})
          => \A p \in CategoryProviders(assign'[i].request.category_id) :
               (\E k \in DOMAIN assign'[i].providersWithDistance :
                   assign'[i].providersWithDistance[k].providerId = p)
               <=> BatchEligible(assign'[i].request, p) ]_vars

\* C29: every step that changes the provider_id of a request adds a history
\* row for that request.
C29_ProviderChangeIsLogged ==
    [][ \A r \in Req :
          (Exists(r) /\ service_requests'[r].provider_id # Row(r).provider_id)
          => Len(request_status_history'[r]) = Len(request_status_history[r]) + 1 ]_vars

\* C30: a request that is assigned, in_progress or completed has assigned_at
\* set, and a completed request has completed_at set.
C30_TimestampsPresent ==
    \A r \in Req :
      Exists(r) =>
        /\ Row(r).status \in {"assigned", "in_progress", "completed"}
             => Row(r).assigned_at # NULLNUM
        /\ Row(r).status = "completed" => Row(r).completed_at # NULLNUM

C30_Witness ==
    \E r \in Req :
      /\ Exists(r) /\ Row(r).status = "completed"
      /\ Row(r).assigned_at = 2 /\ Row(r).completed_at = 3
      /\ \E b \in Bat : batch[b].pc = "done" /\ batch[b].assignedCount = 1

----------------------------------------------------------------------------
\* Provider settings: one request, the Profile page and the availability
\* switch in the sessions of both provider users, and the two pipelines.

FormRadii == {NULLNUM, 2}    \* what the radius field of the Profile page may hold

NextProfile ==
    \/ \E in \in RequestInputs : CreateRequest("r1", in)
    \/ \E uid \in ProvUsers, p \in Prov, serviceRadiusKm \in FormRadii,
          isAvailable \in BOOLEAN : Profile(uid, p, serviceRadiusKm, isAvailable)
    \/ \E uid \in ProvUsers, p \in Prov : handleToggle(uid, p)
    \/ \E r \in Req : AssignResolve(1, r)
    \/ \E updateError \in BOOLEAN : AssignUpdate(1, updateError)
    \/ \E b \in Bat, u \in ProvUsers : BatchStart(b, u)
    \/ \E b \in Bat, assignError \in BOOLEAN : BatchUpdate(b, assignError)

SpecProfile == Init /\ [][NextProfile]_vars

\* C22: a step that changes a provider profile is a settings change made in
\* a session of the user who owns the profile (toggles.uid is that session's
\* auth.uid()); it is no step of an assignment invocation, and the owner of
\* a profile never changes.
C22_SettingsByOwnerOnly ==
    [][ \A p \in Prov :
          provider_profiles'[p] # provider_profiles[p]
          => /\ toggles'.uid = provider_profiles[p].user_id
             /\ provider_profiles'[p].user_id = provider_profiles[p].user_id
             /\ assign' = assign /\ batch' = batch ]_vars

C22_Witness ==
    /\ provider_profiles["p1"].service_area_radius_km = 2
    /\ ~provider_profiles["p2"].is_available
    /\ toggles.count = 1
    /\ assign[1].pc = "done" /\ assign[1].response.success = "true"
    /\ \E b \in Bat : batch[b].pc = "done" /\ batch[b].assignedCount = 1

----------------------------------------------------------------------------
\* The place of provider p in the fetched profiles.
FetchedAt(order, p) == CHOOSE k \in DOMAIN order : order[k] = p

\* C24: candidates at the same distance stand on the shortlist in the order
\* in which their profiles were fetched, and the provider committed is,
\* among the nearest eligible ones, the one fetched first.
C24_TiesKeepFetchOrder ==
    [][ \A i \in Inv :
          /\ (AssignReads(i) /\ assign'[i].pc = "update")
             => LET shortlist == assign'[i].providersWithDistance
                    order == assign'[i].providerProfiles
                IN  \A k, l \in DOMAIN shortlist :
                      (k < l /\ shortlist[k].distance = shortlist[l].distance)
                      => FetchedAt(order, shortlist[k].providerId)
                           < FetchedAt(order, shortlist[l].providerId)
          /\ AssignWrites(i)
             => \A q \in Nearest(assign[i].request) :
                  FetchedAt(assign[i].providerProfiles,
                            service_requests'[assign[i].requestId].provider_id)
                    <= FetchedAt(assign[i].providerProfiles, q) ]_vars

C24_Witness ==
    \E i \in Inv :
      /\ assign[i].pc = "done" /\ assign[i].response.success = "true"
      /\ Len(assign[i].providersWithDistance) = 2
      /\ assign[i].providersWithDistance[1].distance =
           assign[i].providersWithDistance[2].distance
      /\ assign[i].providersWithDistance[1].providerId = "p2"
      /\ Row(assign[i].requestId).provider_id = "p2"

----------------------------------------------------------------------------
\* The batch pipeline on its own: two pending requests, any provider table,
\* and an invocation for any provider user.

InitBatch ==
    /\ \E in1, in2 \in RankInputs :
         LET in == [r \in Req |-> IF r = "r1" THEN in1 ELSE in2]
         IN  /\ service_requests = [r \in Req |-> NewRequest(r, in[r])]
             /\ request_status_history =
                  [r \in Req |-> log_request_status_change(
                                    "INSERT", NoRow, NewRequest(r, in[r]), Resident)]
    /\ notifications = EmptyBag
    /\ provider_profiles \in
         [Prov -> [user_id : ProvUsers \cup {Unlocated}, is_available : BOOLEAN,
                   service_area_radius_km : {NULLNUM} \cup (0..MaxRadius)]]
    /\ \A p \in Prov : provider_profiles[p].user_id \in {ProvUser[p], Unlocated}
    /\ \E p \in Prov : provider_profiles[p].user_id # Unlocated
    /\ assign = [i \in Inv |-> [pc |-> "idle", requestId |-> NULL,
                                request |-> NoRow, status_at_read |-> NULL,
                                providerProfiles |-> << >>,
                                providersWithDistance |-> << >>,
                                response |-> NoResponse]]
    /\ batch = [b \in Bat |-> [pc |-> "idle", userId |-> NULL,
                               providerProfile |-> NoRow,
                               providerLat |-> NaN, serviceRadius |-> NaN,
                               pendingRequests |-> << >>, k |-> 0,
                               assignedCount |-> 0,
                               response |-> NoResponse]]
    /\ list = {}
    /\ mark = [pc |-> "idle", requestId |-> NULL, viewer |-> NULL,
               resident_id |-> NULL, count |-> 0]
    /\ toggles = [count |-> 0, uid |-> NULL]

NextBatch ==
    \/ \E b \in Bat, u \in ProvUsers \cup {Unlocated} : BatchStart(b, u)
    \/ \E b \in Bat, assignError \in BOOLEAN : BatchUpdate(b, assignError)

SpecBatch == InitBatch /\ [][NextBatch]_vars

\* The requests provider p matches: of a category p offers and, p having a
\* location, at a distance within p's radius (10 km when the radius is null).
Matching(p) ==
    {r \in Req :
       /\ Exists(r)
       /\ <<p, Row(r).category_id>> \in provider_categories
       /\ profiles[provider_profiles[p].user_id].location_lat # NULLNUM
       /\ Distance(Row(r), p) <=
            (IF provider_profiles[p].service_area_radius_km = NULLNUM
             THEN DefaultRadius
             ELSE provider_profiles[p].service_area_radius_km)}

C26_UnavailableOrUnlocatedDoesNothing ==
    [][ \A b \in Bat :
          /\ (/\ batch[b].pc = "idle" /\ batch'[b].pc # "idle"
              /\ \E p \in Prov :
                   /\ provider_profiles[p].user_id = batch'[b].userId
                   /\ \/ ~provider_profiles[p].is_available
                      \/ profiles[batch'[b].userId].location_lat = NULLNUM)
             => /\ batch'[b].pc = "done"
                /\ batch'[b].assignedCount = 0
                /\ batch'[b].response.http = 200
                /\ UNCHANGED <<service_requests, request_status_history,
                               notifications>>
          /\ batch[b].pc = "done" => batch'[b] = batch[b] ]_vars

C26_Witness ==
    \E b \in Bat, p \in Prov :
      /\ batch[b].pc = "done" /\ batch[b].userId = Unlocated
      /\ provider_profiles[p].user_id = Unlocated
      /\ provider_profiles[p].is_available
      /\ provider_profiles[p].service_area_radius_km = NULLNUM
      /\ batch[b].response.message = "Assigned"
      /\ \A r \in Req : Row(r).status = "pending" /\ Row(r).category_id = "plumbing"
      /\ notifications = EmptyBag

----------------------------------------------------------------------------
\* Progress of the invocations.  The runtime runs every handler that has
\* started to its end: a pending await resumes when its statement returns.

\* Two pending requests, one of them with two providers in range.
InitLive ==
    /\ InitPair
    /\ service_requests["r1"].category_id = "plumbing"
    /\ service_requests["r1"].location_lat = 2
    /\ service_requests["r2"].category_id = "electrical"
    /\ service_requests["r2"].location_lat \in {0, 4}

NextLive ==
    \/ \E i \in Inv, r \in Req : AssignResolve(i, r)
    \/ \E i \in Inv, updateError \in BOOLEAN : AssignUpdate(i, updateError)
    \/ \E b \in Bat, u \in ProvUsers \cup {Resident} : BatchStart(b, u)
    \/ \E b \in Bat, assignError \in BOOLEAN : BatchUpdate(b, assignError)

SpecLive ==
    /\ InitLive /\ [][NextLive]_vars
    /\ \A i \in Inv : WF_vars(\E updateError \in BOOLEAN : AssignUpdate(i, updateError))
    /\ \A b \in Bat : WF_vars(\E assignError \in BOOLEAN : BatchUpdate(b, assignError))

\* C23: an invocation that has started reaches its response; it has a
\* response exactly when it has ended, the response of assign-provider being
\* a success, a no-match or a failure; after its response its state does not
\* change and it writes nothing: requests and notifications are written
\* only by steps of invocations that have not yet responded.
C23_EveryInvocationReturnsOnce ==
    /\ \A i \in Inv : (assign[i].pc = "update") ~> (assign[i].pc = "done")
    /\ \A b \in Bat : (batch[b].pc = "update") ~> (batch[b].pc = "done")
    /\ [](/\ \A i \in Inv :
              /\ assign[i].response # NoResponse <=> assign[i].pc = "done"
              /\ assign[i].pc = "done"
                   => \/ assign[i].response.success = "true"
                      \/ assign[i].response.message \in NoMatchMessages
                      \/ assign[i].response.http = 400
          /\ \A b \in Bat :
              batch[b].response # NoResponse <=> batch[b].pc = "done")
    /\ [][ /\ \A i \in Inv : assign[i].pc = "done" => assign'[i] = assign[i]
           /\ \A b \in Bat : batch[b].pc = "done" => batch'[b] = batch[b]
           /\ (service_requests' # service_requests \/ notifications' # notifications)
              => \/ \E i \in Inv : assign[i].pc # "done" /\ assign'[i].pc = "done"
                 \/ \E b \in Bat : BatchTurns(b) ]_vars

C23_Witness ==
    /\ \A i \in Inv : assign[i].pc = "done"
    /\ \A b \in Bat : batch[b].pc = "done" /\ batch[b].assignedCount = 2
    /\ \E i \in Inv : assign[i].response.message = "Failed to assign provider"
    /\ \E i \in Inv : assign[i].response.success = "true"

====
